---- MODULE Spec2Model ----
(***************************************************************************)
(* The Fish Tank negotiation session manager (final variant of the        *)
(* router): the in-memory session store, the turn-processing function     *)
(* processUserInput with its stage machine, the scoring, classification,  *)
(* generation and extraction adapters, and the handlers of the router;    *)
(* beside it the voice-analysis handler of the coaching server with its   *)
(* file caches.  Every await on an external call is a step boundary; the  *)
(* code between two awaits is one atomic step.                            *)
(***************************************************************************)
EXTENDS Integers, Sequences, FiniteSets, TLC

VARIABLES
    sessions,     \* the sessions store: session id -> GameSession
    req,          \* per request slot: where the handler is suspended, and its locals
    resp,         \* per request slot: the last HTTP response sent
    validScores,  \* number of scoring calls answered with an applicable score (bounds the environment)
    voice         \* the voice-analysis handler: its cache directory, its position, its response

vars == <<sessions, req, resp, validScores, voice>>

(***************************************************************************)
(* Bounds of the exploration.                                             *)
(***************************************************************************)
\* Spec: player messages accepted per session
MaxTurns == 7
\* Spec: scoring calls, per run, answered with an applicable score
MaxValidScores == 1
\* SpecScoring: player messages accepted per session
ScoringMaxTurns == 3
\* SpecScoring: scoring calls, per run, answered with an applicable score
ScoringMaxValidScores == 3
\* SpecReplies: player messages accepted per session
RepliesMaxTurns == 4
\* SpecReplies: scoring calls, per run, answered with an applicable score
RepliesMaxValidScores == 1
\* SpecReplies: judge replies, per session, other than the plain reply
RepliesMaxOdd == 1
\* SpecOut: the player messages of a session
OutMaxTurns == 4
\* SpecRequests: the player messages of all sessions together
RequestsMaxTurns == 4
\* SpecAudio: the player messages of a session
AudioMaxTurns == 4
\* SpecAudio: the requests to the voice-analysis handler
VoiceMaxRequests == 3
\* SpecConcurrent: the player messages of a session
ConcurrentMaxTurns == 5

(***************************************************************************)
(* Program constants.                                                     *)
(***************************************************************************)
maxEvaluationResponses == 3
maxNegotiationRounds == 3
\* conviction at or above which a judge is "interested"
InterestThreshold == 50
\* conviction at or above which a judge may reply after evaluation
ReplyThreshold == 20

SessionIds == {"s1", "s2"}
Reqs == {1, 2}

JudgeOrder == <<"judge1", "judge2", "judge3">>
JudgeIds == {JudgeOrder[i] : i \in 1..Len(JudgeOrder)}

NoOffer == [present |-> FALSE, amount |-> 0, equity |-> 0, isFinal |-> FALSE]
Offer(a, e) == [present |-> TRUE, amount |-> a, equity |-> e, isFinal |-> FALSE]

NoJudge == "null"

initializeJudges ==
    [j \in JudgeIds |->
        [convictionLevel |-> CASE j = "judge1" -> 40
                               [] j = "judge2" -> 50
                               [] OTHER -> 35,
         questionsAsked |-> 0,
         currentOffer |-> NoOffer]]

(***************************************************************************)
(* Text.  A string is a sequence of one-character strings.                *)
(***************************************************************************)
toLowerChar(c) ==
    CASE c = "I" -> "i" [] c = "M" -> "m" [] c = "O" -> "o" [] c = "U" -> "u"
      [] c = "T" -> "t" [] c = "K" -> "k" [] OTHER -> c

toLowerCase(s) == [i \in 1..Len(s) |-> toLowerChar(s[i])]

includes(s, sub) ==
    \E i \in 0..(Len(s) - Len(sub)) :
        \A k \in 1..Len(sub) : s[i + k] = sub[k]

IsSpace(c) == c = " "

RECURSIVE trimStart(_)
trimStart(s) ==
    IF s = <<>> THEN s
    ELSE IF IsSpace(Head(s)) THEN trimStart(Tail(s)) ELSE s

RECURSIVE trimEnd(_)
trimEnd(s) ==
    IF s = <<>> THEN s
    ELSE IF IsSpace(s[Len(s)]) THEN trimEnd(SubSeq(s, 1, Len(s) - 1)) ELSE s

trim(s) == trimEnd(trimStart(s))

IsDigit(c) == c \in {"0", "1", "2", "3", "4", "5", "6", "7", "8", "9"}

DigitVal(c) ==
    CASE c = "0" -> 0 [] c = "1" -> 1 [] c = "2" -> 2 [] c = "3" -> 3 [] c = "4" -> 4
      [] c = "5" -> 5 [] c = "6" -> 6 [] c = "7" -> 7 [] c = "8" -> 8 [] OTHER -> 9

\* the value of the longest prefix of digits of s, continuing from acc
RECURSIVE digitsPrefix(_, _)
digitsPrefix(s, acc) ==
    IF s = <<>> \/ ~IsDigit(Head(s)) THEN acc
    ELSE digitsPrefix(Tail(s), acc * 10 + DigitVal(Head(s)))

NaN == [nan |-> TRUE, val |-> 0]
Num(n) == [nan |-> FALSE, val |-> n]

\* parseInt(string): leading white space skipped, an optional sign, then the
\* longest run of decimal digits; NaN when there is no digit.
parseInt(str) ==
    LET s == trimStart(str)
        neg == s # <<>> /\ Head(s) = "-"
        body == IF s # <<>> /\ Head(s) \in {"-", "+"} THEN Tail(s) ELSE s
    IN  IF body = <<>> \/ ~IsDigit(Head(body)) THEN NaN
        ELSE Num(IF neg THEN 0 - digitsPrefix(body, 0) ELSE digitsPrefix(body, 0))

(***************************************************************************)
(* What an external call can answer: an exception, a null content, or a   *)
(* text content.                                                          *)
(***************************************************************************)
CallError == [kind |-> "error", text |-> <<>>]
NullContent == [kind |-> "null", text |-> <<>>]
Content(s) == [kind |-> "text", text |-> s]

\* `content?.trim() || dflt`
trimOr(outcome, dflt) ==
    IF outcome.kind = "null" THEN dflt
    ELSE IF trim(outcome.text) = <<>> THEN dflt ELSE trim(outcome.text)

(***************************************************************************)
(* Conviction scoring.                                                    *)
(***************************************************************************)
\* (old, newConviction) for which the double-precision sum
\* old * 0.7 + newConviction * 0.3 is one ulp below k + 0.5 although the exact
\* sum is k + 0.5
BelowHalfInDoubles == {<<45, 0>>, <<85, 0>>, <<85, 10>>}

\* Math.round((old * 0.7) + (newConviction * 0.3)) in IEEE-754 doubles, for
\* old in 0..100 and newConviction a multiple of 10 in 0..100
weightedAverage(old, newConviction) ==
    LET tenths == 7 * old + 3 * newConviction
    IN  IF <<old, newConviction>> \in BelowHalfInDoubles
        THEN tenths \div 10
        ELSE (tenths + 5) \div 10

\* analyzeMessage averaging the score into the highest conviction of the panel
\* instead of the judge's own
analyzeMessageFromTop(s, j, outcome) ==
    IF outcome.kind = "error" THEN s
    ELSE LET rawScore == trimOr(outcome, <<"0">>)
             newScore == parseInt(rawScore)
             top == CHOOSE c \in {s.judges[k].convictionLevel : k \in DOMAIN s.judges} :
                        \A k \in DOMAIN s.judges : c >= s.judges[k].convictionLevel
         IN  IF newScore.nan THEN s
             ELSE IF newScore.val < 0 \/ newScore.val > 10 THEN s
             ELSE [s EXCEPT !.judges[j].convictionLevel =
                                weightedAverage(top, newScore.val * 10)]

\* the session after judge j's scoring call has answered with `outcome`
analyzeMessage(s, j, outcome) ==
    IF outcome.kind = "error" THEN s
    ELSE LET rawScore == trimOr(outcome, <<"0">>)
             newScore == parseInt(rawScore)
         IN  IF newScore.nan THEN s
             ELSE IF newScore.val < 0 \/ newScore.val > 10 THEN s
             ELSE [s EXCEPT !.judges[j].convictionLevel =
                                weightedAverage(@, newScore.val * 10)]

\* whether the scoring call's answer reaches the assignment of convictionLevel
scoreApplies(outcome) ==
    /\ outcome.kind # "error"
    /\ LET newScore == parseInt(trimOr(outcome, <<"0">>))
       IN  ~newScore.nan /\ newScore.val >= 0 /\ newScore.val <= 10

ScoreContents ==
    { <<>>, <<"0">>, <<"2">>, <<"9">>, <<"9", "x">>, <<"x">>, <<"-", "1">>, <<"1", "1">>, <<" ", "2", " ">> }

ScoreOutcomes == {CallError, NullContent} \cup {Content(c) : c \in ScoreContents}

(***************************************************************************)
(* Sessions.                                                              *)
(***************************************************************************)
PlayerEntry(text) == [speaker |-> "player", text |-> text, judge |-> NoJudge]
JudgeEntry(j, text) == [speaker |-> "judge", text |-> text, judge |-> j]

\* the greeting of POST /start, which names the starting judge
Greeting(j) == <<"W", "e", "l", "c", "o", "m", "e", ":", j>>

\* the session object built around the registry itself instead of a clone:
\* the judges are those the sessions before it have worked on
newSessionSharedRegistry(startingJudge) ==
    [conversationHistory |-> <<JudgeEntry(startingJudge, Greeting(startingJudge))>>,
     judges |-> IF DOMAIN sessions = {} THEN initializeJudges
                ELSE sessions[CHOOSE sid \in DOMAIN sessions : TRUE].judges,
     currentStage |-> "evaluation",
     stageProgress |-> 0,
     playerResponseCount |-> 0,
     negotiationRound |-> 0,
     judgeOffers |-> [j \in JudgeIds |-> NoOffer],
     acceptedOffer |-> NoJudge]

\* the session object POST /start builds: the registry deep-cloned, no offers
newSession(startingJudge) ==
    [conversationHistory |-> <<JudgeEntry(startingJudge, Greeting(startingJudge))>>,
     judges |-> initializeJudges,
     currentStage |-> "evaluation",
     stageProgress |-> 0,
     playerResponseCount |-> 0,
     negotiationRound |-> 0,
     judgeOffers |-> [j \in JudgeIds |-> NoOffer],
     acceptedOffer |-> NoJudge]

\* Object.values(session.judges).filter(judge => judge.convictionLevel >= floor)
RECURSIVE filterAtLeast(_, _, _)
filterAtLeast(s, order, floor) ==
    IF order = <<>> THEN <<>>
    ELSE IF s.judges[Head(order)].convictionLevel >= floor
         THEN <<Head(order)>> \o filterAtLeast(s, Tail(order), floor)
         ELSE filterAtLeast(s, Tail(order), floor)

\* x put into a list sorted by descending conviction, after its equals
RECURSIVE insertDesc(_, _, _)
insertDesc(s, x, sorted) ==
    IF sorted = <<>> THEN <<x>>
    ELSE IF s.judges[Head(sorted)].convictionLevel >= s.judges[x].convictionLevel
         THEN <<Head(sorted)>> \o insertDesc(s, x, Tail(sorted))
         ELSE <<x>> \o sorted

\* .sort((a, b) => b.convictionLevel - a.convictionLevel): stable
RECURSIVE sortDesc(_, _, _)
sortDesc(s, list, acc) ==
    IF list = <<>> THEN acc
    ELSE sortDesc(s, Tail(list), insertDesc(s, Head(list), acc))

\* the judges with conviction >= 50, highest conviction first
interestedSorted(s) == sortDesc(s, filterAtLeast(s, JudgeOrder, InterestThreshold), <<>>)

\* the initial offer with the equity cut to an integer instead of rounded
initialOfferTruncated(conviction) == Offer(conviction * 1000, conviction \div 2)

\* amount and equity of the offer generated when evaluation completes
initialOffer(conviction) == Offer(conviction * 1000, (conviction + 1) \div 2)

\* the for loop giving every interested judge its initial offer
RECURSIVE generateOffers(_, _)
generateOffers(s, list) ==
    IF list = <<>> THEN s
    ELSE LET j == Head(list)
             offer == initialOffer(s.judges[j].convictionLevel)
         IN  generateOffers([s EXCEPT !.judges[j].currentOffer = offer,
                                      !.judgeOffers[j] = offer],
                            Tail(list))

\* session.playerResponseCount >= GAME_CONFIG.maxEvaluationResponses, with its
\* comparison turned strict
evaluationCompleteStrict(count) == count > maxEvaluationResponses

\* session.playerResponseCount >= GAME_CONFIG.maxEvaluationResponses
evaluationComplete(count) == count >= maxEvaluationResponses

\* session.negotiationRound >= GAME_CONFIG.maxNegotiationRounds, with its
\* comparison turned strict
roundsExhaustedStrict(round) == round > maxNegotiationRounds

\* session.negotiationRound >= GAME_CONFIG.maxNegotiationRounds
roundsExhausted(round) == round >= maxNegotiationRounds

\* case 'closure' taken for a case that reopens the negotiation
closureStepReopens(s) == [s EXCEPT !.currentStage = "negotiation"]

\* case 'closure': no further processing
closureStep(s) == s

\* case 'evaluation'
evaluationStep(s) ==
    LET counted == [s EXCEPT !.stageProgress = @ + 1, !.playerResponseCount = @ + 1]
    IN  IF evaluationComplete(counted.playerResponseCount)
        THEN LET moved == [counted EXCEPT !.currentStage = "initial_offers",
                                          !.stageProgress = 0,
                                          !.playerResponseCount = 0]
                 interestedJudges == filterAtLeast(moved, JudgeOrder, InterestThreshold)
             IN  IF Len(interestedJudges) = 0
                 THEN [moved EXCEPT !.currentStage = "closure"]
                 ELSE generateOffers(moved, interestedJudges)
        ELSE counted

\* processUserInput from the join of the scoring calls to its first await, or to
\* its end: the session then, and whether the classification call is awaited
stageStep(s) ==
    CASE s.currentStage = "evaluation" ->
            [s |-> evaluationStep(s), await |-> FALSE, branch |-> "evaluation"]
      [] s.currentStage = "initial_offers" ->
            IF Len(filterAtLeast(s, JudgeOrder, InterestThreshold)) = 0
            THEN [s |-> [s EXCEPT !.currentStage = "closure", !.stageProgress = 0],
                  await |-> FALSE, branch |-> "initial_offers"]
            ELSE [s |-> s, await |-> TRUE, branch |-> "initial_offers"]
      [] s.currentStage = "negotiation" ->
            LET counted == [s EXCEPT !.negotiationRound = @ + 1, !.stageProgress = @ + 1]
            IN  IF roundsExhausted(counted.negotiationRound)
                THEN [s |-> [counted EXCEPT !.currentStage = "closure", !.stageProgress = 0],
                      await |-> FALSE, branch |-> "negotiation"]
                ELSE [s |-> counted, await |-> TRUE, branch |-> "negotiation"]
      [] OTHER ->
            [s |-> closureStep(s), await |-> FALSE, branch |-> "closure"]

(***************************************************************************)
(* Player-intent classification.                                          *)
(***************************************************************************)
\* what the classification call can answer, by what JSON.parse makes of it;
\* an amount or equity of 0 also stands for null and for an absent field
Amounts == {0, 400000}
Equities == {0, 15}

Analysis(acc, ctr, a, e) ==
    [isNull |-> FALSE, isAcceptance |-> acc, isCounterOffer |-> ctr,
     counterOfferAmount |-> a, counterOfferEquity |-> e]

NullAnalysis ==
    [isNull |-> TRUE, isAcceptance |-> FALSE, isCounterOffer |-> FALSE,
     counterOfferAmount |-> 0, counterOfferEquity |-> 0]

ClassifyOutcomes ==
    {[kind |-> "error", json |-> NullAnalysis],
     [kind |-> "invalid_json", json |-> NullAnalysis],
     [kind |-> "json", json |-> NullAnalysis]}
    \cup {[kind |-> "json", json |-> Analysis(acc, ctr, a, e)] :
            acc \in BOOLEAN, ctr \in BOOLEAN, a \in Amounts, e \in Equities}

\* analyzePlayerResponse without its catch: a failed call or an unparseable
\* content leaves no analysis to read
analyzePlayerResponseNoCatch(outcome) == outcome.json

\* what analyzePlayerResponse returns: the parsed content, or on any exception
\* the default {isAcceptance: false, isCounterOffer: false}
analyzePlayerResponse(outcome) ==
    IF outcome.kind = "json" THEN outcome.json
    ELSE Analysis(FALSE, FALSE, 0, 0)

\* session.acceptedOffer = highestConvictionJudge.id; a TypeError when no judge
\* has conviction >= 50
acceptOffer(s) ==
    LET sorted == interestedSorted(s)
    IN  IF sorted = <<>> THEN [s |-> s, threw |-> TRUE]
        ELSE [s |-> [s EXCEPT !.acceptedOffer = Head(sorted)], threw |-> FALSE]

\* the counter-offer written over the offer of the first judge with conviction
\* >= 50 in registry order: the sort left out
recordCounterOfferUnsorted(s, analysis) ==
    IF analysis.counterOfferAmount # 0 /\ analysis.counterOfferEquity # 0
    THEN LET interested == filterAtLeast(s, JudgeOrder, InterestThreshold)
         IN  IF interested = <<>> THEN [s |-> s, threw |-> TRUE]
             ELSE [s |-> [s EXCEPT !.judgeOffers[Head(interested)] =
                                      Offer(analysis.counterOfferAmount,
                                            analysis.counterOfferEquity)],
                   threw |-> FALSE]
    ELSE [s |-> s, threw |-> FALSE]

\* the counter-offer written over the offer of the highest-conviction judge
recordCounterOffer(s, analysis) ==
    IF analysis.counterOfferAmount # 0 /\ analysis.counterOfferEquity # 0
    THEN LET sorted == interestedSorted(s)
         IN  IF sorted = <<>> THEN [s |-> s, threw |-> TRUE]
             ELSE [s |-> [s EXCEPT !.judgeOffers[Head(sorted)] =
                                      Offer(analysis.counterOfferAmount,
                                            analysis.counterOfferEquity)],
                   threw |-> FALSE]
    ELSE [s |-> s, threw |-> FALSE]

\* case 'initial_offers' after the classification call
initialOffersStep(s, analysis) ==
    IF analysis.isNull THEN [s |-> s, threw |-> TRUE]
    ELSE IF analysis.isAcceptance
    THEN acceptOffer([s EXCEPT !.currentStage = "closure", !.stageProgress = 0])
    ELSE IF analysis.isCounterOffer
    THEN recordCounterOffer([s EXCEPT !.currentStage = "negotiation",
                                      !.stageProgress = 0,
                                      !.negotiationRound = 0],
                            analysis)
    ELSE [s |-> [s EXCEPT !.currentStage = "negotiation",
                          !.stageProgress = 0,
                          !.negotiationRound = 0],
          threw |-> FALSE]

\* case 'negotiation' after the classification call
negotiationStep(s, analysis) ==
    IF analysis.isNull THEN [s |-> s, threw |-> TRUE]
    ELSE IF analysis.isAcceptance
    THEN acceptOffer([s EXCEPT !.currentStage = "closure", !.stageProgress = 0])
    ELSE IF analysis.isCounterOffer
    THEN recordCounterOffer(s, analysis)
    ELSE [s |-> s, threw |-> FALSE]

\* processUserInput from the answer of the classification call to its end
classifiedStep(s, branch, analysis) ==
    IF branch = "initial_offers" THEN initialOffersStep(s, analysis)
    ELSE negotiationStep(s, analysis)

(***************************************************************************)
(* Response selection.                                                    *)
(***************************************************************************)
firstTwo(list) == SubSeq(list, 1, IF Len(list) < 2 THEN Len(list) ELSE 2)

\* the responders chosen by conviction in every stage
replyingJudgesByConviction(s) ==
    firstTwo(sortDesc(s, filterAtLeast(s, JudgeOrder, ReplyThreshold), <<>>))

replyingJudges(s) ==
    IF s.currentStage = "evaluation" THEN firstTwo(JudgeOrder)
    ELSE firstTwo(sortDesc(s, filterAtLeast(s, JudgeOrder, ReplyThreshold), <<>>))

(***************************************************************************)
(* Response generation and offer extraction.                              *)
(***************************************************************************)
\* "I need to think about this more."
FallbackReply ==
    <<"I", " ", "n", "e", "e", "d", " ", "t", "o", " ", "t", "h", "i", "n", "k", " ", "a", "b", "o", "u", "t", " ", "t", "h", "i", "s", " ", "m", "o", "r", "e", ".">>

PlainReply == <<"O", "k">>

ReplyContents ==
    { PlainReply,
      <<"I", "'", "m", " ", "o", "u", "t">>,
      <<"I", "M", " ", "O", "U", "T">>,
      <<>> }

GenerateOutcomes == {CallError, NullContent} \cup {Content(c) : c \in ReplyContents}

\* the test of saysOut without toLowerCase()
saysOutCaseSensitive(reply) ==
    \/ includes(reply, <<"i", "'", "m", " ", "o", "u", "t">>)
    \/ includes(reply, <<"i", "m", " ", "o", "u", "t">>)

\* reply.toLowerCase().includes("i'm out") || reply.toLowerCase().includes("im out")
saysOut(reply) ==
    \/ includes(toLowerCase(reply), <<"i", "'", "m", " ", "o", "u", "t">>)
    \/ includes(toLowerCase(reply), <<"i", "m", " ", "o", "u", "t">>)

\* the offer extracted from the reply in every stage
extractsOfferAlways(s) == TRUE

\* else if (session.currentStage === 'initial_offers'): the reply's offer is extracted
extractsOffer(s) == s.currentStage = "initial_offers"

\* generateJudgeResponse answering a failed call like an ordinary reply
replyTextPlainOnError(outcome) ==
    IF outcome.kind = "error" THEN PlainReply ELSE trimOr(outcome, FallbackReply)

\* the text generateJudgeResponse returns for this answer of the generation call
replyText(outcome) ==
    IF outcome.kind = "error" THEN FallbackReply ELSE trimOr(outcome, FallbackReply)

\* what extractOfferDetails returns: null (also on any exception), or an offer
NoDetails == [found |-> FALSE, amount |-> 0, equity |-> 0]
ExtractOutcomes == {NoDetails, [found |-> TRUE, amount |-> 500000, equity |-> 20]}

\* the judge snapshot put into dialogue entries and responses
formatJudgeForResponse(s, j) ==
    [id |-> j,
     convictionLevel |-> s.judges[j].convictionLevel,
     isOut |-> s.judges[j].convictionLevel < ReplyThreshold]

(***************************************************************************)
(* Requests.                                                              *)
(***************************************************************************)
Message == <<"m", "s", "g">>

\* session.conversationHistory.unshift for push
unshiftEntry(history, d) == <<d>> \o history

\* session.conversationHistory.push
pushEntry(history, d) == Append(history, d)

\* what the speech-to-text call answers: a failure, or a transcript text
Heard == <<"h", "i">>
TranscribeOutcomes == {CallError, NullContent, Content(<<>>), Content(Heard)}

\* transcribeAudio with a default transcript for a failed call
transcribeAudioWithDefault(outcome) ==
    IF outcome.kind = "text" THEN outcome.text ELSE Heard

\* transcribeAudio: transcription.text || '', and '' when the call fails
transcribeAudio(outcome) ==
    IF outcome.kind = "text" THEN outcome.text ELSE <<>>

\* what a request carries: the handler it is for, its session id, and whether
\* its body (the message, the audio file) is there
Asked(handler, sid, hasBody) == [handler |-> handler, sid |-> sid, hasBody |-> hasBody]
NoRequest == Asked("none", "none", FALSE)

IdleReq ==
    [pc |-> "idle", asked |-> NoRequest, sid |-> "none", pending |-> {}, branch |-> "none",
     judges |-> <<>>, idx |-> 0, reply |-> <<>>, replies |-> <<>>]

\* the slot of a request that has been answered
finished(asked) == [IdleReq EXCEPT !.asked = asked]

NoResponse == [status |-> 0, replies |-> <<>>, allJudges |-> <<>>, dialogue |-> <<>>]

ErrorResponse(code) == [status |-> code, replies |-> <<>>, allJudges |-> <<>>, dialogue |-> <<>>]

\* Object.values(session.judges).map(formatJudgeForResponse)
roster(s) == [i \in 1..Len(JudgeOrder) |-> formatJudgeForResponse(s, JudgeOrder[i])]

ReplyResponse(s, replies) ==
    [status |-> 200, replies |-> replies, allJudges |-> roster(s), dialogue |-> <<>>]

\* session.conversationHistory.slice(-5)
lastFive(history) ==
    SubSeq(history, IF Len(history) > 5 THEN Len(history) - 4 ELSE 1, Len(history))

\* the response of POST /audio-reply
AudioResponse(s) ==
    [status |-> 200, replies |-> <<>>, allJudges |-> roster(s),
     dialogue |-> lastFive(s.conversationHistory)]

\* the response of GET /session/:sessionId
SessionResponse(s) ==
    [status |-> 200, replies |-> <<>>, allJudges |-> roster(s),
     dialogue |-> s.conversationHistory]

\* the response of POST /ai-player-reply
AiReplyResponse == [status |-> 200, replies |-> <<>>, allJudges |-> <<>>, dialogue |-> <<>>]

\* property names every object inherits: sessions is a plain object, so
\* sessions[sessionId] finds a value for them
InheritedKeys == {"constructor"}

\* an absent session id
NoSessionId == ""

\* the session ids a request can carry
RequestSessionIds == SessionIds \cup InheritedKeys \cup {NoSessionId, "unknown"}

\* what sessions[sessionId] yields: a session, an inherited member of the
\* object, or undefined
lookup(sid) ==
    IF sid \in DOMAIN sessions THEN "session"
    ELSE IF sid \in InheritedKeys THEN "inherited"
    ELSE "undefined"

\* !sessionId || !sessions[sessionId]
sessionNotFound(sid) == sid = NoSessionId \/ lookup(sid) = "undefined"


IsPlayerEntry(d) == d.speaker = "player"
IsOddReply(d) == d.speaker = "judge" /\ d.text # PlainReply /\ Head(d.text) # "W"

playerMessages(s) ==
    Cardinality({i \in 1..Len(s.conversationHistory) : IsPlayerEntry(s.conversationHistory[i])})

oddReplies(s) ==
    Cardinality({i \in 1..Len(s.conversationHistory) : IsOddReply(s.conversationHistory[i])})

\* the voice-analysis handler at rest, its cache directory empty
IdleVoice ==
    [pc |-> "idle", key |-> "none", transcription |-> "none",
     cache |-> <<>>, grammarCache |-> <<>>, status |-> 0, grammar |-> "none",
     grammarCalls |-> 0, requests |-> 0]

Init ==
    /\ sessions = <<>>
    /\ req = [r \in Reqs |-> IdleReq]
    /\ resp = [r \in Reqs |-> NoResponse]
    /\ validScores = 0
    /\ voice = IdleVoice

\* POST /start
StartSession(sid, startingJudge) ==
    /\ sid \notin DOMAIN sessions
    /\ sessions' = sessions @@ (sid :> newSession(startingJudge))
    /\ UNCHANGED <<req, resp, validScores, voice>>

\* the handler from the end of processUserInput to the first generation call,
\* or to the response when no judge replies
beginReplies(r, sid, s) ==
    LET selected == replyingJudges(s)
    IN  /\ sessions' = [sessions EXCEPT ![sid] = s]
        /\ IF selected = <<>>
           THEN /\ req' = [req EXCEPT ![r] = finished(req[r].asked)]
                /\ resp' = [resp EXCEPT ![r] = ReplyResponse(s, <<>>)]
           ELSE /\ req' = [req EXCEPT ![r] = [@ EXCEPT !.pc = "generate",
                                                      !.pending = {},
                                                      !.judges = selected,
                                                      !.idx = 1]]
                /\ UNCHANGED resp

\* processUserInput has returned: POST /audio-reply answers at once, POST /reply
\* goes on to the judges' replies
inputProcessed(r, sid, s) ==
    IF req[r].asked.handler = "audio"
    THEN /\ sessions' = [sessions EXCEPT ![sid] = s]
         /\ req' = [req EXCEPT ![r] = finished(req[r].asked)]
         /\ resp' = [resp EXCEPT ![r] = AudioResponse(s)]
    ELSE beginReplies(r, sid, s)

\* the catch of the handler: processUserInput threw
failRequest(r, sid, s) ==
    /\ sessions' = [sessions EXCEPT ![sid] = s]
    /\ req' = [req EXCEPT ![r] = finished(req[r].asked)]
    /\ resp' = [resp EXCEPT ![r] = ErrorResponse(500)]

\* a handler answers without touching a session
respond(r, asked, response) ==
    /\ resp' = [resp EXCEPT ![r] = response]
    /\ req' = [req EXCEPT ![r] = finished(asked)]
    /\ UNCHANGED sessions

\* processUserInput up to the scoring calls: the player entry pushed, one
\* scoring call per judge made
processUserInputStart(r, asked, text) ==
    /\ sessions' = [sessions EXCEPT ![asked.sid].conversationHistory =
                                        pushEntry(@, PlayerEntry(text))]
    /\ req' = [req EXCEPT ![r] = [IdleReq EXCEPT !.pc = "scoring",
                                                 !.asked = asked,
                                                 !.sid = asked.sid,
                                                 !.pending = JudgeIds]]
    /\ resp' = [resp EXCEPT ![r] = NoResponse]

\* POST /reply up to the scoring calls: validation, the player entry pushed.
\* For an inherited member of sessions, processUserInput throws on
\* session.conversationHistory.push and the handler's catch answers 500.
ReplyStart(r, sid, hasMessage, maxTurns) ==
    LET asked == Asked("reply", sid, hasMessage)
    IN  /\ req[r].pc = "idle"
        /\ IF sessionNotFound(sid) THEN respond(r, asked, ErrorResponse(404))
           ELSE IF ~hasMessage THEN respond(r, asked, ErrorResponse(400))
           ELSE IF lookup(sid) = "inherited" THEN respond(r, asked, ErrorResponse(500))
           ELSE /\ playerMessages(sessions[sid]) < maxTurns
                /\ processUserInputStart(r, asked, Message)
        /\ UNCHANGED <<validScores, voice>>

\* GET /session/:sessionId.  For an inherited member of sessions,
\* Object.values(session.judges) throws and the router's error handler
\* answers 500.
GetSession(r, sid) ==
    LET asked == Asked("session", sid, TRUE)
    IN  /\ req[r].pc = "idle"
        /\ IF sessionNotFound(sid) THEN respond(r, asked, ErrorResponse(404))
           ELSE IF lookup(sid) = "inherited" THEN respond(r, asked, ErrorResponse(500))
           ELSE respond(r, asked, SessionResponse(sessions[sid]))
        /\ UNCHANGED <<validScores, voice>>

\* POST /audio-reply up to the transcription call
AudioReplyStart(r, sid, hasFile, maxTurns) ==
    LET asked == Asked("audio", sid, hasFile)
    IN  /\ req[r].pc = "idle"
        /\ IF sessionNotFound(sid) THEN respond(r, asked, ErrorResponse(404))
           ELSE IF ~hasFile THEN respond(r, asked, ErrorResponse(400))
           ELSE /\ lookup(sid) = "session" => playerMessages(sessions[sid]) < maxTurns
                /\ req' = [req EXCEPT ![r] = [IdleReq EXCEPT !.pc = "transcribe",
                                                             !.asked = asked,
                                                             !.sid = sid]]
                /\ resp' = [resp EXCEPT ![r] = NoResponse]
                /\ UNCHANGED sessions
        /\ UNCHANGED <<validScores, voice>>

\* POST /audio-reply once the transcription call has answered: what becomes of
\* the sessions, of the request and of its response.  An empty transcription
\* answers 500; for an inherited member of sessions processUserInput throws
\* and the catch answers 500; otherwise processUserInput starts.
audioReplyResume(r, outcome) ==
    LET transcription == transcribeAudio(outcome)
        asked == req[r].asked
        failed == [sessions |-> sessions, req |-> finished(asked),
                   resp |-> ErrorResponse(500)]
    IN  IF transcription = <<>> THEN failed
        ELSE IF lookup(asked.sid) # "session" THEN failed
        ELSE [sessions |-> [sessions EXCEPT ![asked.sid].conversationHistory =
                                                pushEntry(@, PlayerEntry(transcription))],
              req |-> [IdleReq EXCEPT !.pc = "scoring", !.asked = asked,
                                      !.sid = asked.sid, !.pending = JudgeIds],
              resp |-> NoResponse]

\* the transcription call of POST /audio-reply answers
AudioTranscribeDone(r, outcome) ==
    /\ req[r].pc = "transcribe"
    /\ LET resumed == audioReplyResume(r, outcome)
       IN  /\ sessions' = resumed.sessions
           /\ req' = [req EXCEPT ![r] = resumed.req]
           /\ resp' = [resp EXCEPT ![r] = resumed.resp]
    /\ UNCHANGED <<validScores, voice>>

\* POST /ai-player-reply up to the generation call.  For an inherited member
\* of sessions, session.conversationHistory.slice throws outside the try of
\* this async handler: the router answers 500 or never answers.
AiPlayerReplyStart(r, sid, answered) ==
    LET asked == Asked("ai", sid, TRUE)
    IN  /\ req[r].pc = "idle"
        /\ IF sessionNotFound(sid) THEN respond(r, asked, ErrorResponse(404))
           ELSE IF lookup(sid) = "inherited"
           THEN respond(r, asked, IF answered THEN ErrorResponse(500) ELSE NoResponse)
           ELSE /\ req' = [req EXCEPT ![r] = [IdleReq EXCEPT !.pc = "ai_reply",
                                                             !.asked = asked,
                                                             !.sid = sid]]
                /\ resp' = [resp EXCEPT ![r] = NoResponse]
                /\ UNCHANGED sessions
        /\ UNCHANGED <<validScores, voice>>

\* the generation call of POST /ai-player-reply answers
AiPlayerReplyDone(r, outcome) ==
    /\ req[r].pc = "ai_reply"
    /\ respond(r, req[r].asked,
               IF outcome.kind = "error" THEN ErrorResponse(500) ELSE AiReplyResponse)
    /\ UNCHANGED <<validScores, voice>>

\* one scoring call answers; the last one resumes processUserInput
ScoreDone(r, j, outcome, maxValid) ==
    /\ req[r].pc = "scoring"
    /\ j \in req[r].pending
    /\ scoreApplies(outcome) => validScores < maxValid
    /\ validScores' = IF scoreApplies(outcome) THEN validScores + 1 ELSE validScores
    /\ UNCHANGED voice
    /\ LET sid == req[r].sid
           scored == analyzeMessage(sessions[sid], j, outcome)
       IN  IF req[r].pending # {j}
           THEN /\ sessions' = [sessions EXCEPT ![sid] = scored]
                /\ req' = [req EXCEPT ![r].pending = @ \ {j}]
                /\ UNCHANGED resp
           ELSE LET st == stageStep(scored)
                IN  IF st.await
                    THEN /\ sessions' = [sessions EXCEPT ![sid] = st.s]
                         /\ req' = [req EXCEPT ![r] = [@ EXCEPT !.pc = "classify",
                                                                !.pending = {},
                                                                !.branch = st.branch]]
                         /\ UNCHANGED resp
                    ELSE inputProcessed(r, sid, st.s)

\* the classification call answers
ClassifyDone(r, outcome) ==
    /\ req[r].pc = "classify"
    /\ LET sid == req[r].sid
           res == classifiedStep(sessions[sid], req[r].branch, analyzePlayerResponse(outcome))
       IN  IF res.threw THEN failRequest(r, sid, res.s)
           ELSE inputProcessed(r, sid, res.s)
    /\ UNCHANGED <<validScores, voice>>

\* the reply is pushed to the history and to the response; the next judge's
\* generation call is made, or the response is sent
pushReply(r, sid, s, text) ==
    LET j == req[r].judges[req[r].idx]
        pushed == [s EXCEPT !.conversationHistory = pushEntry(@, JudgeEntry(j, text))]
        replies == Append(req[r].replies,
                          [text |-> text, judge |-> formatJudgeForResponse(s, j)])
    IN  /\ sessions' = [sessions EXCEPT ![sid] = pushed]
        /\ IF req[r].idx < Len(req[r].judges)
           THEN /\ req' = [req EXCEPT ![r] = [@ EXCEPT !.pc = "generate",
                                                      !.idx = @ + 1,
                                                      !.reply = <<>>,
                                                      !.replies = replies]]
                /\ UNCHANGED resp
           ELSE /\ req' = [req EXCEPT ![r] = finished(req[r].asked)]
                /\ resp' = [resp EXCEPT ![r] = ReplyResponse(pushed, replies)]

\* the generation call of generateJudgeResponse answers
GenerateDone(r, outcome, maxOdd) ==
    /\ req[r].pc = "generate"
    /\ LET sid == req[r].sid
           s == sessions[sid]
           j == req[r].judges[req[r].idx]
           reply == replyText(outcome)
       IN  /\ reply # PlainReply => oddReplies(s) < maxOdd
           /\ IF outcome.kind = "error" THEN pushReply(r, sid, s, reply)
              ELSE IF saysOut(reply)
              THEN pushReply(r, sid,
                             [s EXCEPT !.judges[j].convictionLevel = 0,
                                       !.judges[j].questionsAsked = @ + 1],
                             reply)
              ELSE IF extractsOffer(s)
              THEN /\ req' = [req EXCEPT ![r] = [@ EXCEPT !.pc = "extract", !.reply = reply]]
                   /\ UNCHANGED <<sessions, resp>>
              ELSE pushReply(r, sid, [s EXCEPT !.judges[j].questionsAsked = @ + 1], reply)
    /\ UNCHANGED <<validScores, voice>>

\* extractOfferDetails answers inside generateJudgeResponse
ExtractDone(r, details) ==
    /\ req[r].pc = "extract"
    /\ LET sid == req[r].sid
           s == sessions[sid]
           j == req[r].judges[req[r].idx]
           offered == IF details.found
                      THEN [s EXCEPT !.judges[j].currentOffer = Offer(details.amount, details.equity),
                                     !.judgeOffers[j] = Offer(details.amount, details.equity)]
                      ELSE s
       IN  pushReply(r, sid, [offered EXCEPT !.judges[j].questionsAsked = @ + 1], req[r].reply)
    /\ UNCHANGED <<validScores, voice>>

(***************************************************************************)
(* The voice-analysis handler of the coaching server.  The cache          *)
(* directory holds <key>.json (transcriptions) and grammar-<key>.json     *)
(* (grammar analyses), the key being the hash of the uploaded file.       *)
(***************************************************************************)
\* process.env.ENABLE_ELEVENLABS_CACHE !== 'false', the variable not set
ENABLE_ELEVENLABS_CACHE == TRUE
\* process.env.ENABLE_GRAMMAR_CACHE !== 'false', the variable not set
ENABLE_GRAMMAR_CACHE == TRUE

\* the hashes of the uploaded files
CacheKeys == {"k1", "k2"}

\* what the speech-to-text call of the handler answers: a failure, a
\* transcription with its words, or a payload without words
VoiceTranscribeOutcomes == {"failure", "words", "no_words"}

\* what the grammar call answers: a failure, no content, content that does
\* not parse, an object without analysis, or an object with an analysis
GrammarOutcomes == {"failure", "no_content", "invalid_json", "no_analysis", "analysis"}

\* getCachedResponse
getCachedResponse(v, key) ==
    IF ENABLE_ELEVENLABS_CACHE /\ key \in DOMAIN v.cache THEN v.cache[key] ELSE "null"

\* saveToCache writing nothing
saveToCacheSkipped(v, key, data) == v

\* saveToCache
saveToCache(v, key, data) ==
    IF ENABLE_ELEVENLABS_CACHE
    THEN [v EXCEPT !.cache = [k \in DOMAIN @ \cup {key} |-> IF k = key THEN data ELSE @[k]]]
    ELSE v

\* getCachedGrammarAnalysis
getCachedGrammarAnalysis(v, key) ==
    IF ENABLE_GRAMMAR_CACHE /\ key \in DOMAIN v.grammarCache THEN v.grammarCache[key] ELSE "null"

\* saveGrammarAnalysisToCache
saveGrammarAnalysisToCache(v, key, data) ==
    IF ENABLE_GRAMMAR_CACHE
    THEN [v EXCEPT !.grammarCache = [k \in DOMAIN @ \cup {key} |-> IF k = key THEN data ELSE @[k]]]
    ELSE v

\* the handler answers: its catch answers 500 for whatever was thrown
voiceResponse(v, status, grammar) ==
    [v EXCEPT !.pc = "idle", !.status = status, !.grammar = grammar]

\* the handler from the transcription in hand to the grammar call or, with the
\* analysis cached, to the response; a transcription without words throws
voiceAnalyse(v, key, transcription) ==
    LET held == [v EXCEPT !.key = key, !.transcription = transcription]
    IN  IF transcription = "no_words" THEN voiceResponse(held, 500, "none")
        ELSE IF getCachedGrammarAnalysis(held, key) # "null"
        THEN voiceResponse(held, 200, getCachedGrammarAnalysis(held, key))
        ELSE [held EXCEPT !.pc = "grammar", !.grammarCalls = @ + 1]

\* the transcription call failed: the error is logged and thrown again, the
\* handler's catch answers 500
transcriptionFailed(v) == voiceResponse(v, 500, "none")

\* POST /api/analyze-voice up to the transcription call, or with the
\* transcription cached up to the grammar call
VoiceStart(hasFile, fileExists, key, maxRequests) ==
    /\ voice.pc = "idle"
    /\ voice.requests < maxRequests
    /\ LET v == [voice EXCEPT !.requests = @ + 1, !.status = 0, !.grammar = "none",
                              !.key = "none", !.transcription = "none"]
       IN  voice' = IF ~hasFile THEN voiceResponse(v, 400, "none")
                    ELSE IF ~fileExists THEN voiceResponse(v, 500, "none")
                    ELSE IF getCachedResponse(v, key) # "null"
                    THEN voiceAnalyse(v, key, getCachedResponse(v, key))
                    ELSE [v EXCEPT !.pc = "transcribing", !.key = key]
    /\ UNCHANGED <<sessions, req, resp, validScores>>

\* the handler once the transcription call has answered: a failure is thrown
\* again, a transcription is saved to the cache and analysed
voiceTranscribed(v, outcome) ==
    IF outcome = "failure" THEN transcriptionFailed(v)
    ELSE voiceAnalyse(saveToCache(v, v.key, outcome), v.key, outcome)

\* the transcription call of the handler answers
VoiceTranscribeDone(outcome) ==
    /\ voice.pc = "transcribing"
    /\ voice' = voiceTranscribed(voice, outcome)
    /\ UNCHANGED <<sessions, req, resp, validScores>>

\* the grammar call of checkGrammar answers: its catch returns [] for a
\* failure, for no content and for content that does not parse
VoiceGrammarDone(outcome) ==
    /\ voice.pc = "grammar"
    /\ voice' = IF outcome \in {"failure", "no_content", "invalid_json"}
                THEN voiceResponse(voice, 200, "[]")
                ELSE LET analysis == IF outcome = "analysis" THEN "analysis" ELSE "[]"
                     IN  voiceResponse(saveGrammarAnalysisToCache(voice, voice.key, analysis),
                                       200, analysis)
    /\ UNCHANGED <<sessions, req, resp, validScores>>

(***************************************************************************)
(* Spec: one session, its turns processed one at a time.  The scoring     *)
(* calls answer with an error, an unusable content or the scores 0 and 9; *)
(* the generation calls with a plain reply, an "I'm out" reply or an      *)
(* error.                                                                 *)
(***************************************************************************)
SerialSessionIds == {"s1"}
SerialReqs == {1}
SerialStartingJudges == {"judge1"}
SerialScoreOutcomes == {CallError, Content(<<"x">>), Content(<<"0">>), Content(<<"9">>)}
SerialGenerateOutcomes == {Content(PlainReply)}

Next ==
    \/ \E sid \in SerialSessionIds, j \in SerialStartingJudges : StartSession(sid, j)
    \/ \E r \in SerialReqs, sid \in SerialSessionIds : ReplyStart(r, sid, TRUE, MaxTurns)
    \/ \E r \in SerialReqs, j \in JudgeIds, outcome \in SerialScoreOutcomes :
          ScoreDone(r, j, outcome, MaxValidScores)
    \/ \E r \in SerialReqs, outcome \in ClassifyOutcomes : ClassifyDone(r, outcome)
    \/ \E r \in SerialReqs, outcome \in SerialGenerateOutcomes : GenerateDone(r, outcome, 0)
    \/ \E r \in SerialReqs, details \in ExtractOutcomes : ExtractDone(r, details)

Spec == Init /\ [][Next]_vars

(***************************************************************************)
(* SpecScoring: the turns of evaluation, one at a time, with every answer *)
(* of the scoring calls.                                                  *)
(***************************************************************************)
NextScoring ==
    \/ \E sid \in SerialSessionIds, j \in SerialStartingJudges : StartSession(sid, j)
    \/ \E r \in SerialReqs, sid \in SerialSessionIds : ReplyStart(r, sid, TRUE, ScoringMaxTurns)
    \/ \E r \in SerialReqs, j \in JudgeIds, outcome \in ScoreOutcomes :
          ScoreDone(r, j, outcome, ScoringMaxValidScores)
    \/ \E r \in SerialReqs, outcome \in SerialGenerateOutcomes : GenerateDone(r, outcome, 0)
    \/ \E r \in SerialReqs, details \in ExtractOutcomes : ExtractDone(r, details)

SpecScoring == Init /\ [][NextScoring]_vars

(***************************************************************************)
(* SpecReplies: the first turns, one at a time, with every answer of the  *)
(* generation calls.                                                      *)
(***************************************************************************)
RepliesScoreOutcomes == {CallError, Content(<<"9">>)}

RepliesClassifyOutcomes ==
    {[kind |-> "invalid_json", json |-> NullAnalysis],
     [kind |-> "json", json |-> Analysis(TRUE, FALSE, 0, 0)]}

NextReplies ==
    \/ \E sid \in SerialSessionIds, j \in SerialStartingJudges : StartSession(sid, j)
    \/ \E r \in SerialReqs, sid \in SerialSessionIds : ReplyStart(r, sid, TRUE, RepliesMaxTurns)
    \/ \E r \in SerialReqs, j \in JudgeIds, outcome \in RepliesScoreOutcomes :
          ScoreDone(r, j, outcome, RepliesMaxValidScores)
    \/ \E r \in SerialReqs, outcome \in RepliesClassifyOutcomes : ClassifyDone(r, outcome)
    \/ \E r \in SerialReqs, outcome \in GenerateOutcomes : GenerateDone(r, outcome, RepliesMaxOdd)
    \/ \E r \in SerialReqs, details \in ExtractOutcomes : ExtractDone(r, details)

SpecReplies == Init /\ [][NextReplies]_vars

(***************************************************************************)
(* SpecOut: the first turns, one at a time, with judges that lose         *)
(* interest: scoring calls that fail or answer 0, replies that are plain  *)
(* or say "I'm out".                                                      *)
(***************************************************************************)
OutScoreOutcomes == {CallError, Content(<<"0">>)}
OutGenerateOutcomes == {Content(PlainReply), Content(<<"I", "'", "m", " ", "o", "u", "t">>)}
OutClassifyOutcomes == {[kind |-> "json", json |-> Analysis(FALSE, FALSE, 0, 0)]}

NextOut ==
    \/ \E sid \in SerialSessionIds, j \in SerialStartingJudges : StartSession(sid, j)
    \/ \E r \in SerialReqs, sid \in SerialSessionIds : ReplyStart(r, sid, TRUE, OutMaxTurns)
    \/ \E r \in SerialReqs, j \in JudgeIds, outcome \in OutScoreOutcomes :
          ScoreDone(r, j, outcome, OutMaxTurns * 3)
    \/ \E r \in SerialReqs, outcome \in OutClassifyOutcomes : ClassifyDone(r, outcome)
    \/ \E r \in SerialReqs, outcome \in OutGenerateOutcomes :
          GenerateDone(r, outcome, OutMaxTurns * 2)
    \/ \E r \in SerialReqs, details \in ExtractOutcomes : ExtractDone(r, details)

SpecOut == Init /\ [][NextOut]_vars

(***************************************************************************)
(* SpecRequests: two sessions and every handler of the router, one        *)
(* request at a time, with session ids that are absent, unknown, or the   *)
(* name of an inherited property, and with and without a body.  The       *)
(* scoring calls fail.                                                    *)
(***************************************************************************)
\* scoring calls that all fail
FailedScoreOutcomes == {CallError}

\* the player messages of the sessions in ids
RECURSIVE turnsOf(_)
turnsOf(ids) ==
    IF ids = {} THEN 0
    ELSE LET sid == CHOOSE x \in ids : TRUE
         IN  playerMessages(sessions[sid]) + turnsOf(ids \ {sid})

\* the player messages session sid may still take, RequestsMaxTurns being
\* shared by all sessions
RequestsTurnsFor(sid) == RequestsMaxTurns - turnsOf(DOMAIN sessions \ {sid})
RequestsExtractOutcomes == {NoDetails}
AiReplyOutcomes == {CallError, Content(PlainReply)}

NextRequests ==
    \/ \E sid \in SessionIds, j \in SerialStartingJudges : StartSession(sid, j)
    \/ \E r \in SerialReqs, sid \in RequestSessionIds, hasMessage \in BOOLEAN :
          ReplyStart(r, sid, hasMessage, RequestsTurnsFor(sid))
    \/ \E r \in SerialReqs, sid \in RequestSessionIds : GetSession(r, sid)
    \/ \E r \in SerialReqs, sid \in RequestSessionIds, hasFile \in BOOLEAN :
          AudioReplyStart(r, sid, hasFile, RequestsTurnsFor(sid))
    \/ \E r \in SerialReqs, outcome \in TranscribeOutcomes : AudioTranscribeDone(r, outcome)
    \/ \E r \in SerialReqs, sid \in RequestSessionIds, answered \in BOOLEAN :
          AiPlayerReplyStart(r, sid, answered)
    \/ \E r \in SerialReqs, outcome \in AiReplyOutcomes : AiPlayerReplyDone(r, outcome)
    \/ \E r \in SerialReqs, j \in JudgeIds, outcome \in FailedScoreOutcomes :
          ScoreDone(r, j, outcome, 0)
    \/ \E r \in SerialReqs, outcome \in OutClassifyOutcomes : ClassifyDone(r, outcome)
    \/ \E r \in SerialReqs, outcome \in SerialGenerateOutcomes : GenerateDone(r, outcome, 0)
    \/ \E r \in SerialReqs, details \in RequestsExtractOutcomes : ExtractDone(r, details)

SpecRequests == Init /\ [][NextRequests]_vars

(***************************************************************************)
(* SpecAudio: one session whose turns arrive as audio, with every answer  *)
(* of the transcription call, beside the voice-analysis handler with      *)
(* every answer of its transcription and grammar calls.                   *)
(***************************************************************************)
AudioSessionIds == SerialSessionIds \cup InheritedKeys

NextAudio ==
    \/ \E sid \in SerialSessionIds, j \in SerialStartingJudges : StartSession(sid, j)
    \/ \E r \in SerialReqs, sid \in AudioSessionIds, hasFile \in BOOLEAN :
          AudioReplyStart(r, sid, hasFile, AudioMaxTurns)
    \/ \E r \in SerialReqs, outcome \in TranscribeOutcomes : AudioTranscribeDone(r, outcome)
    \/ \E r \in SerialReqs, j \in JudgeIds, outcome \in FailedScoreOutcomes :
          ScoreDone(r, j, outcome, 0)
    \/ \E r \in SerialReqs, outcome \in OutClassifyOutcomes : ClassifyDone(r, outcome)
    \/ \E hasFile \in BOOLEAN, fileExists \in BOOLEAN, key \in CacheKeys :
          VoiceStart(hasFile, fileExists, key, VoiceMaxRequests)
    \/ \E outcome \in VoiceTranscribeOutcomes : VoiceTranscribeDone(outcome)
    \/ \E outcome \in GrammarOutcomes : VoiceGrammarDone(outcome)

SpecAudio == Init /\ [][NextAudio]_vars

(***************************************************************************)
(* SpecConcurrent: one session and two reply requests that can be in      *)
(* flight together, each resumed whenever one of its calls answers.  The  *)
(* scoring calls fail, the classification calls answer with an            *)
(* acceptance, a counter-offer or neither.                                *)
(***************************************************************************)
ConcurrentClassifyOutcomes ==
    {[kind |-> "json", json |-> Analysis(FALSE, FALSE, 0, 0)],
     [kind |-> "json", json |-> Analysis(TRUE, FALSE, 0, 0)],
     [kind |-> "json", json |-> Analysis(FALSE, TRUE, 400000, 15)]}

NextConcurrent ==
    \/ \E sid \in SerialSessionIds, j \in SerialStartingJudges : StartSession(sid, j)
    \/ \E r \in Reqs, sid \in SerialSessionIds : ReplyStart(r, sid, TRUE, ConcurrentMaxTurns)
    \/ \E r \in Reqs, j \in JudgeIds, outcome \in FailedScoreOutcomes :
          ScoreDone(r, j, outcome, 0)
    \/ \E r \in Reqs, outcome \in ConcurrentClassifyOutcomes : ClassifyDone(r, outcome)
    \/ \E r \in Reqs, outcome \in SerialGenerateOutcomes : GenerateDone(r, outcome, 0)
    \/ \E r \in Reqs, details \in RequestsExtractOutcomes : ExtractDone(r, details)

SpecConcurrent == Init /\ [][NextConcurrent]_vars

(***************************************************************************)
(* Properties.                                                            *)
(***************************************************************************)
StageRank(stage) ==
    CASE stage = "evaluation" -> 0
      [] stage = "initial_offers" -> 1
      [] stage = "negotiation" -> 2
      [] OTHER -> 3

\* whether a request on session sid is suspended at pc
Suspended(sid, pc) == \E r \in Reqs : req[r].pc = pc /\ req[r].sid = sid

\* no request on session sid is in flight
Quiet(sid) == \A r \in Reqs : req[r].pc = "idle" \/ req[r].sid # sid

\* the player messages of session sid the stage machine has dealt with
processedTurns(sid) ==
    IF Suspended(sid, "scoring") THEN playerMessages(sessions[sid]) - 1
    ELSE playerMessages(sessions[sid])

hasInterestedJudges(s) == \E j \in JudgeIds : s.judges[j].convictionLevel >= InterestThreshold

\* C1: with the turns of a session processed one at a time, no step moves
\* currentStage backwards in the order evaluation, initial_offers, negotiation,
\* closure; in particular a session in closure stays in closure.
C1_StageMonotonic ==
    [][\A sid \in DOMAIN sessions :
          StageRank(sessions'[sid].currentStage) >= StageRank(sessions[sid].currentStage)]_vars

\* C1 witness: a session that reached closure with its fourth message at the
\* latest (no negotiation round, no accepted offer) and has processed a fifth
C1_Witness ==
    \E sid \in DOMAIN sessions :
        /\ sessions[sid].currentStage = "closure"
        /\ sessions[sid].negotiationRound = 0
        /\ sessions[sid].acceptedOffer = NoJudge
        /\ Quiet(sid)
        /\ playerMessages(sessions[sid]) = 5

\* C2: from a new session, after the first and after the second processed
\* player message the session is in evaluation, and once the third is processed
\* it is not: until the fourth arrives it is in closure if no judge has
\* conviction >= 50 and in initial_offers otherwise, whatever the scoring calls
\* answered.
C2_EvaluationTakesThree ==
    \A sid \in DOMAIN sessions :
        LET s == sessions[sid] IN
        /\ processedTurns(sid) < 3 => s.currentStage = "evaluation"
        /\ processedTurns(sid) >= 3 => s.currentStage # "evaluation"
        /\ (processedTurns(sid) = 3 /\ playerMessages(s) = 3) =>
              s.currentStage = IF hasInterestedJudges(s) THEN "initial_offers" ELSE "closure"

\* C2 witness: the third message processed, no judge interested, closure
C2_Witness ==
    \E sid \in DOMAIN sessions :
        /\ playerMessages(sessions[sid]) = 3
        /\ Quiet(sid)
        /\ ~hasInterestedJudges(sessions[sid])
        /\ sessions[sid].currentStage = "closure"

\* C3: the step that resumes processUserInput for the third turn in negotiation
\* (negotiationRound 2 when the scoring calls join) leaves the session in
\* closure and does not wait for the classification call.
C3_ThirdRoundForcesClosure ==
    [][\A r \in Reqs :
          (/\ req[r].pc = "scoring"
           /\ req'[r].pc # "scoring"
           /\ sessions[req[r].sid].currentStage = "negotiation"
           /\ sessions[req[r].sid].negotiationRound = maxNegotiationRounds - 1)
          => (/\ sessions'[req[r].sid].currentStage = "closure"
              /\ sessions'[req[r].sid].negotiationRound = maxNegotiationRounds
              /\ req'[r].pc # "classify")]_vars

\* C3 witness: closure after three negotiation rounds, no offer accepted
C3_Witness ==
    \E sid \in DOMAIN sessions :
        /\ sessions[sid].currentStage = "closure"
        /\ sessions[sid].negotiationRound = maxNegotiationRounds
        /\ sessions[sid].acceptedOffer = NoJudge
        /\ Quiet(sid)

\* the decimal numeral of n, for n in 0..10
ScoreText(n) ==
    IF n = 10 THEN <<"1", "0">>
    ELSE <<CASE n = 0 -> "0" [] n = 1 -> "1" [] n = 2 -> "2" [] n = 3 -> "3" [] n = 4 -> "4"
             [] n = 5 -> "5" [] n = 6 -> "6" [] n = 7 -> "7" [] n = 8 -> "8" [] OTHER -> "9">>

\* num / den rounded to the nearest integer, halves up
RoundHalfUp(num, den) == (2 * num + den) \div (2 * den)

\* judge j of session sid has a scoring call in flight
ScoringPending(sid, j) ==
    \E r \in Reqs : req[r].pc = "scoring" /\ req[r].sid = sid /\ j \in req[r].pending

\* C4: every judge's convictionLevel is an integer in 0..100, and a scoring
\* result newScore in 0..10 for a judge with a scoring call in flight changes
\* the conviction from old to round(old * 0.7 + newScore * 10 * 0.3).
C4_ConvictionFormula ==
    \A sid \in DOMAIN sessions : \A j \in JudgeIds :
        LET s == sessions[sid]
            old == s.judges[j].convictionLevel
        IN  /\ old \in 0..100
            /\ ScoringPending(sid, j) =>
                  \A newScore \in 0..10 :
                      analyzeMessage(s, j, Content(ScoreText(newScore))).judges[j].convictionLevel
                          = RoundHalfUp(7 * old + 30 * newScore, 10)

\* the content is a decimal integer numeral: an optional sign, then digits only
IsNumeral(text) ==
    LET s == trim(text)
        body == IF s # <<>> /\ Head(s) \in {"-", "+"} THEN Tail(s) ELSE s
    IN  body # <<>> /\ \A i \in 1..Len(body) : IsDigit(body[i])

NumeralValue(text) ==
    LET s == trim(text)
    IN  IF Head(s) = "-" THEN 0 - digitsPrefix(Tail(s), 0)
        ELSE IF Head(s) = "+" THEN digitsPrefix(Tail(s), 0)
        ELSE digitsPrefix(s, 0)

\* the scoring call failed, or its result is non-numeric, negative or above 10
UnusableScore(outcome) ==
    \/ outcome.kind # "text"
    \/ ~IsNumeral(outcome.text)
    \/ NumeralValue(outcome.text) < 0
    \/ NumeralValue(outcome.text) > 10

\* C6: a scoring call that fails or returns a non-numeric, negative or
\* greater-than-10 result leaves the session as it was: the judge's conviction
\* is not changed, and nothing of the other judges is.
C6_UnusableScoreDiscarded ==
    \A sid \in DOMAIN sessions : \A j \in JudgeIds :
        ScoringPending(sid, j) =>
            \A outcome \in ScoreOutcomes :
                UnusableScore(outcome) => analyzeMessage(sessions[sid], j, outcome) = sessions[sid]

\* position i of text starts "i'm out" or "im out" in any letter case
OutPhraseAt(text, i) ==
    LET at(k) == IF i + k <= Len(text) THEN text[i + k] ELSE "" IN
    /\ at(0) \in {"i", "I"}
    /\ \/ /\ at(1) = "'" /\ at(2) \in {"m", "M"} /\ at(3) = " "
          /\ at(4) \in {"o", "O"} /\ at(5) \in {"u", "U"} /\ at(6) \in {"t", "T"}
       \/ /\ at(1) \in {"m", "M"} /\ at(2) = " "
          /\ at(3) \in {"o", "O"} /\ at(4) \in {"u", "U"} /\ at(5) \in {"t", "T"}

ContainsOutPhrase(text) == \E i \in 1..Len(text) : OutPhraseAt(text, i)

\* C5: in the response that ends a turn, every judge whose reply contains
\* "i'm out" or "im out" in any letter case has conviction 0, in the reply's
\* own judge entry and in the roster, and is reported out.
C5_OutReplyZeroesConviction ==
    \A r \in Reqs :
        (req[r].pc = "idle" /\ resp[r].status = 200) =>
            \A i \in 1..Len(resp[r].replies) :
                ContainsOutPhrase(resp[r].replies[i].text) =>
                    /\ resp[r].replies[i].judge.convictionLevel = 0
                    /\ \A k \in 1..Len(resp[r].allJudges) :
                          resp[r].allJudges[k].id = resp[r].replies[i].judge.id =>
                              /\ resp[r].allJudges[k].convictionLevel = 0
                              /\ resp[r].allJudges[k].isOut

\* C5 witness: the first turn, in which judge1 alone was given an applicable
\* score, ended with an out reply of judge1 in another letter case
C5_Witness ==
    \E r \in Reqs, sid \in DOMAIN sessions :
        /\ req[r].pc = "idle" /\ resp[r].status = 200
        /\ playerMessages(sessions[sid]) = 1
        /\ validScores = 1
        /\ sessions[sid].judges["judge2"].convictionLevel = 50
        /\ sessions[sid].judges["judge3"].convictionLevel = 35
        /\ sessions[sid].judges["judge1"].convictionLevel = 0
        /\ resp[r].replies[1].judge.id = "judge1"
        /\ resp[r].replies[1].text = <<"I", "M", " ", "O", "U", "T">>

\* the classification call failed or its content could not be parsed
ClassificationFailed(outcome) == outcome.kind \in {"error", "invalid_json"}

\* C7: when the classification call a turn waits for fails or returns content
\* that cannot be parsed, processUserInput does not throw, acceptedOffer, the
\* offers and the judges are left as they were, and the stage is negotiation
\* afterwards (from initial_offers as from negotiation).
C7_FailedClassificationIsNeither ==
    \A r \in Reqs :
        req[r].pc = "classify" =>
            \A outcome \in ClassifyOutcomes :
                ClassificationFailed(outcome) =>
                    LET s == sessions[req[r].sid]
                        res == classifiedStep(s, req[r].branch, analyzePlayerResponse(outcome))
                    IN  /\ ~res.threw
                        /\ s.currentStage = req[r].branch
                        /\ res.s.currentStage = "negotiation"
                        /\ res.s.acceptedOffer = s.acceptedOffer
                        /\ res.s.judgeOffers = s.judgeOffers
                        /\ res.s.judges = s.judges
                        /\ req[r].branch = "initial_offers" => res.s.negotiationRound = 0
                        /\ req[r].branch = "negotiation" => res.s.negotiationRound = s.negotiationRound

\* C7 witness: a turn in negotiation waits for the classification call
C7_Witness ==
    \E r \in Reqs :
        /\ req[r].pc = "classify"
        /\ req[r].branch = "negotiation"
        /\ sessions[req[r].sid].negotiationRound = 2

\* the message is classified as an acceptance
IsAccepted(outcome) == outcome.kind = "json" /\ ~outcome.json.isNull /\ outcome.json.isAcceptance

\* the message is classified as a counter-offer with an amount and an equity
IsFullCounterOffer(outcome) ==
    /\ outcome.kind = "json" /\ ~outcome.json.isNull
    /\ ~outcome.json.isAcceptance /\ outcome.json.isCounterOffer
    /\ outcome.json.counterOfferAmount # 0 /\ outcome.json.counterOfferEquity # 0

\* C8: when a turn in negotiation is classified as an acceptance, or as a
\* counter-offer with an amount and an equity, while no judge has conviction
\* >= 50, processUserInput does not throw and the session is in closure.
C8_NoInterestedJudgeFallback ==
    \A r \in Reqs :
        (/\ req[r].pc = "classify"
         /\ req[r].branch = "negotiation"
         /\ ~hasInterestedJudges(sessions[req[r].sid])) =>
            \A outcome \in ClassifyOutcomes :
                (IsAccepted(outcome) \/ IsFullCounterOffer(outcome)) =>
                    LET res == classifiedStep(sessions[req[r].sid], req[r].branch,
                                              analyzePlayerResponse(outcome))
                    IN  ~res.threw /\ res.s.currentStage = "closure"

\* j has the highest conviction among the judges with conviction >= 50
IsTopInterested(s, j) ==
    /\ s.judges[j].convictionLevel >= InterestThreshold
    /\ \A k \in JudgeIds : s.judges[k].convictionLevel <= s.judges[j].convictionLevel

\* C9: a turn processed in initial_offers leaves initial_offers.  It waits for
\* the classification only if some judge has conviction >= 50; whatever the
\* classification call answers, an acceptance ends in closure with acceptedOffer
\* a judge of highest conviction (>= 50), anything else in negotiation with
\* negotiationRound = 0; and no session rests in initial_offers after its
\* fourth message.
C9_InitialOffersTurn ==
    /\ \A r \in Reqs :
          (req[r].pc = "classify" /\ req[r].branch = "initial_offers") =>
              /\ hasInterestedJudges(sessions[req[r].sid])
              /\ \A outcome \in ClassifyOutcomes :
                    LET res == classifiedStep(sessions[req[r].sid], req[r].branch,
                                              analyzePlayerResponse(outcome))
                    IN  /\ ~res.threw
                        /\ IF IsAccepted(outcome)
                           THEN /\ res.s.currentStage = "closure"
                                /\ res.s.acceptedOffer \in JudgeIds
                                /\ IsTopInterested(res.s, res.s.acceptedOffer)
                           ELSE /\ res.s.currentStage = "negotiation"
                                /\ res.s.negotiationRound = 0
    /\ \A sid \in DOMAIN sessions :
          (sessions[sid].currentStage = "initial_offers" /\ Quiet(sid)) =>
              playerMessages(sessions[sid]) = 3

\* C10: a turn in negotiation increases negotiationRound by exactly 1; while
\* the new round is below 3 it waits for the classification, after which a
\* message classified as neither or as a counter-offer leaves the stage
\* negotiation and an acceptance moves it to closure with acceptedOffer the
\* judge of highest conviction among those with conviction >= 50.
C10_NegotiationTurn ==
    /\ \A sid \in DOMAIN sessions :
          sessions[sid].currentStage = "negotiation" =>
              LET st == stageStep(sessions[sid])
              IN  /\ st.s.negotiationRound = sessions[sid].negotiationRound + 1
                  /\ st.await = (st.s.negotiationRound < maxNegotiationRounds)
    /\ \A r \in Reqs :
          (req[r].pc = "classify" /\ req[r].branch = "negotiation") =>
              /\ sessions[req[r].sid].negotiationRound < maxNegotiationRounds
              /\ \A outcome \in ClassifyOutcomes :
                    (outcome.kind = "json" /\ ~outcome.json.isNull) =>
                        LET res == classifiedStep(sessions[req[r].sid], req[r].branch,
                                                  analyzePlayerResponse(outcome))
                        IN  IF IsAccepted(outcome)
                            THEN /\ res.s.currentStage = "closure"
                                 /\ res.s.acceptedOffer \in JudgeIds
                                 /\ IsTopInterested(res.s, res.s.acceptedOffer)
                            ELSE res.s.currentStage = "negotiation"

\* the offer record {amount, equity, isFinal: false}
OfferRecord(amount, equity) ==
    [present |-> TRUE, amount |-> amount, equity |-> equity, isFinal |-> FALSE]

StageMachineRan(sid, n) ==
    LET h == sessions[sid].conversationHistory
    IN  /\ playerMessages(sessions[sid]) = n
        /\ ~Suspended(sid, "scoring")
        /\ h[Len(h)].speaker = "player"

\* C12: when the stage machine has run for the third message of a session,
\* every judge with conviction >= 50 has the offer {conviction * 1000,
\* round(conviction / 2), isFinal: false} as currentOffer and in judgeOffers,
\* the judges below 50 have none, and the stage is initial_offers; with no
\* judge at 50 or above there is no offer at all and the stage is closure.
C12_InitialOffersGenerated ==
    \A sid \in DOMAIN sessions :
        StageMachineRan(sid, maxEvaluationResponses) =>
            LET s == sessions[sid] IN
            /\ s.currentStage = IF hasInterestedJudges(s) THEN "initial_offers" ELSE "closure"
            /\ \A j \in JudgeIds :
                  LET conviction == s.judges[j].convictionLevel
                      expected == IF conviction >= InterestThreshold
                                  THEN OfferRecord(conviction * 1000, RoundHalfUp(conviction, 2))
                                  ELSE NoOffer
                  IN  s.judges[j].currentOffer = expected /\ s.judgeOffers[j] = expected

\* C12 witness: judge1 at the odd conviction 55 got 55000 for 28 percent
C12_Witness ==
    \E sid \in DOMAIN sessions :
        /\ StageMachineRan(sid, maxEvaluationResponses)
        /\ sessions[sid].currentStage = "initial_offers"
        /\ sessions[sid].judges["judge1"].convictionLevel = 55
        /\ sessions[sid].judgeOffers["judge1"] = OfferRecord(55000, 28)
        /\ sessions[sid].judges["judge3"].convictionLevel < InterestThreshold

\* C13: at the end of the turn that moves a session from evaluation to
\* initial_offers (the replies are generated, the fourth message has not
\* arrived), a judge with conviction below 50 has no currentOffer and no entry
\* in judgeOffers.
C13_OnlyInterestedHoldOffers ==
    \A sid \in DOMAIN sessions :
        (/\ playerMessages(sessions[sid]) = maxEvaluationResponses
         /\ sessions[sid].currentStage = "initial_offers"
         /\ Quiet(sid)) =>
            \A j \in JudgeIds :
                sessions[sid].judges[j].convictionLevel < InterestThreshold =>
                    /\ sessions[sid].judges[j].currentOffer = NoOffer
                    /\ sessions[sid].judgeOffers[j] = NoOffer

\* C14: a step on a session in closure leaves currentStage, negotiationRound,
\* judgeOffers, acceptedOffer and every judge's currentOffer as they were; the
\* step that takes a message appends the player entry, and every step that
\* ends a judge's reply appends that judge's entry.
C14_ClosureFrame ==
    [][\A sid \in DOMAIN sessions :
          sessions[sid].currentStage = "closure" =>
              LET s == sessions[sid]
                  t == sessions'[sid]
                  h == t.conversationHistory
              IN  /\ t.currentStage = "closure"
                  /\ t.negotiationRound = s.negotiationRound
                  /\ t.judgeOffers = s.judgeOffers
                  /\ t.acceptedOffer = s.acceptedOffer
                  /\ \A j \in JudgeIds : t.judges[j].currentOffer = s.judges[j].currentOffer
                  /\ \A r \in Reqs :
                        /\ (req[r].pc = "idle" /\ req'[r].pc = "scoring" /\ req'[r].sid = sid) =>
                              h = Append(s.conversationHistory, PlayerEntry(Message))
                        /\ (/\ req[r].pc = "generate" /\ req[r].sid = sid
                            /\ (req'[r].pc = "idle" \/ req'[r].idx # req[r].idx)) =>
                              /\ Len(h) = Len(s.conversationHistory) + 1
                              /\ SubSeq(h, 1, Len(h) - 1) = s.conversationHistory
                              /\ h[Len(h)].speaker = "judge"
                              /\ h[Len(h)].judge = req[r].judges[req[r].idx]]_vars

\* C14 witness: the sixth turn of a session in closure since its fourth at the
\* latest has ended with two judge replies
C14_Witness ==
    \E sid \in DOMAIN sessions, r \in Reqs :
        LET h == sessions[sid].conversationHistory IN
        /\ sessions[sid].currentStage = "closure"
        /\ Quiet(sid)
        /\ resp[r].status = 200 /\ Len(resp[r].replies) = 2
        /\ Len(h) >= 6
        /\ h[Len(h) - 2].speaker = "player"
        /\ h[Len(h) - 1].speaker = "judge"
        /\ sessions[sid].negotiationRound = 0
        /\ sessions[sid].acceptedOffer = NoJudge
        /\ playerMessages(sessions[sid]) = 6

\* the conviction of judge j in session s
Conviction(s, j) == s.judges[j].convictionLevel

\* sel is what the claim lets reply in session s
ClaimedResponders(s, sel) ==
    IF s.currentStage = "evaluation"
    THEN sel = <<"judge1", "judge2">>
    ELSE /\ Len(sel) <= 2
         /\ \A i \in 1..Len(sel) : Conviction(s, sel[i]) >= ReplyThreshold
         /\ \A i, k \in 1..Len(sel) : i < k =>
               /\ sel[i] # sel[k]
               /\ Conviction(s, sel[i]) >= Conviction(s, sel[k])
         /\ \A j \in JudgeIds :
               (Conviction(s, j) >= ReplyThreshold /\ \A i \in 1..Len(sel) : sel[i] # j) =>
                   /\ Len(sel) = 2
                   /\ Conviction(s, j) <= Conviction(s, sel[2])

\* C15: when processUserInput has returned, the responders are chosen by the
\* stage the session is in then: judge1 then judge2 in evaluation whatever
\* their conviction, else the judges with conviction >= 20 by descending
\* conviction, at most two; with none, the response carries no reply and the
\* player entry is the last of the history; the replies of the response come
\* from the chosen judges in that order.
C15_Responders ==
    [][\A r \in Reqs :
          /\ (/\ req[r].pc \in {"scoring", "classify"}
              /\ req'[r].pc \notin {"scoring", "classify"}
              /\ resp'[r].status # 500) =>
                 LET s == sessions'[req[r].sid]
                     h == s.conversationHistory
                     sel == IF req'[r].pc = "generate" THEN req'[r].judges ELSE <<>>
                 IN  /\ ClaimedResponders(s, sel)
                     /\ req'[r].pc = "generate" => (sel # <<>> /\ req'[r].idx = 1)
                     /\ sel = <<>> =>
                           /\ req'[r].pc = "idle"
                           /\ resp'[r].status = 200
                           /\ resp'[r].replies = <<>>
                           /\ h[Len(h)] = PlayerEntry(Message)
          /\ (req[r].pc \in {"generate", "extract"} /\ req'[r].pc = "idle") =>
                 /\ resp'[r].status = 200
                 /\ Len(resp'[r].replies) = Len(req[r].judges)
                 /\ \A i \in 1..Len(req[r].judges) :
                       resp'[r].replies[i].judge.id = req[r].judges[i]]_vars

\* C15 witness: a turn after evaluation ended without a reply, every judge
\* being below 20
C15_Witness ==
    \E sid \in DOMAIN sessions, r \in Reqs :
        LET h == sessions[sid].conversationHistory IN
        /\ Quiet(sid)
        /\ sessions[sid].currentStage # "evaluation"
        /\ resp[r].status = 200 /\ resp[r].replies = <<>>
        /\ h[Len(h)].speaker = "player"
        /\ \A j \in JudgeIds : Conviction(sessions[sid], j) < ReplyThreshold

(***************************************************************************)
(* C16: a reply, fetch-session, audio-reply or ai-player-reply request    *)
(* whose session id is missing or names no session is answered not found  *)
(* (404), and a reply request for an existing session without a string    *)
(* message is answered with a client error (400); in both cases the       *)
(* request is over, no session is created and no session changes.         *)
(***************************************************************************)
\* request slot r takes a request in this step
Takes(r) == req[r].pc = "idle" /\ <<req'[r], resp'[r]>> # <<req[r], resp[r]>>

C16_InvalidRequestRejected ==
    [][\A r \in Reqs :
          Takes(r) =>
             LET asked == req'[r].asked
                 rejected(code) ==
                     /\ req'[r].pc = "idle"
                     /\ resp'[r].status = code
                     /\ sessions' = sessions
             IN  /\ asked.sid \notin DOMAIN sessions => rejected(404)
                 /\ (asked.handler = "reply" /\ asked.sid \in DOMAIN sessions
                        /\ ~asked.hasBody) => rejected(400)]_vars

(***************************************************************************)
(* C17: when two reply requests for one session are in flight together,   *)
(* the currentStage, negotiationRound, judgeOffers and acceptedOffer they  *)
(* leave are those of the turns processed one after the other in some     *)
(* order: once no request is in flight, the session is in a state that    *)
(* as many turns processed one at a time can leave.                       *)
(***************************************************************************)
\* processUserInput run from its start to its end with no other request in
\* between, the scoring calls failing and the classification call answering
\* outcome
serialTurn(s, outcome) ==
    LET st == stageStep(s)
    IN  IF st.await THEN classifiedStep(st.s, st.branch, analyzePlayerResponse(outcome)).s
        ELSE st.s

\* the sessions that n turns processed one at a time leave
RECURSIVE SerialSessions(_)
SerialSessions(n) ==
    IF n = 0 THEN {newSession(startingJudge) : startingJudge \in SerialStartingJudges}
    ELSE {serialTurn(s, outcome) : s \in SerialSessions(n - 1),
                                   outcome \in ConcurrentClassifyOutcomes}

\* the part of a session the claim is about
Outcome(s) ==
    [currentStage |-> s.currentStage, negotiationRound |-> s.negotiationRound,
     judgeOffers |-> s.judgeOffers, acceptedOffer |-> s.acceptedOffer]

C17_SerialOutcome ==
    \A sid \in DOMAIN sessions :
        Quiet(sid) =>
            Outcome(sessions[sid]) \in
                {Outcome(s) : s \in SerialSessions(playerMessages(sessions[sid]))}

(***************************************************************************)
(* C18: every step leaves the conversation history of a session with its  *)
(* previous value as a prefix, and a reply turn processed on its own      *)
(* appends the player entry, then one entry per judge reply in the order  *)
(* of the response's replies, which are at most two, and nothing else.    *)
(***************************************************************************)
IsPrefix(h, g) == Len(h) <= Len(g) /\ SubSeq(g, 1, Len(h)) = h

\* the dialogue entry of a reply of a response
ReplyEntry(reply) == JudgeEntry(reply.judge.id, reply.text)

C18_HistoryAppendOnly ==
    [][\A sid \in DOMAIN sessions :
          LET h == sessions[sid].conversationHistory
              g == sessions'[sid].conversationHistory
          IN  /\ IsPrefix(h, g)
              /\ \A r \in Reqs :
                    LET given == IF req'[r].pc = "idle" THEN resp'[r].replies
                                 ELSE req'[r].replies
                    IN  /\ (Takes(r) /\ req'[r].asked.sid = sid) =>
                               g = Append(h, PlayerEntry(Message))
                        /\ (req[r].pc # "idle" /\ req[r].sid = sid /\ req'[r] # req[r]) =>
                               /\ IsPrefix(req[r].replies, given)
                               /\ Len(given) <= 2
                               /\ g = h \o [i \in 1..(Len(given) - Len(req[r].replies)) |->
                                               ReplyEntry(given[Len(req[r].replies) + i])]
                        /\ (req[r].pc # "idle" /\ req[r].sid = sid /\ req'[r].pc = "idle") =>
                               LET n == Len(resp'[r].replies)
                               IN  /\ Len(g) > n
                                   /\ g[Len(g) - n] = PlayerEntry(Message)
                                   /\ \A i \in 1..n :
                                         g[Len(g) - n + i] = ReplyEntry(resp'[r].replies[i])]_vars

\* C18 witness: a turn has ended with two replies, the history ending with the
\* player entry and the two replies after the entries of an earlier turn
C18_Witness ==
    \E sid \in DOMAIN sessions, r \in Reqs :
        LET h == sessions[sid].conversationHistory IN
        /\ Quiet(sid)
        /\ req[r].asked.sid = sid
        /\ resp[r].status = 200
        /\ Len(resp[r].replies) = 2
        /\ playerMessages(sessions[sid]) = 2
        /\ Len(h) = 7
        /\ h[5] = PlayerEntry(Message)
        /\ h[6] = ReplyEntry(resp[r].replies[1])
        /\ h[7] = ReplyEntry(resp[r].replies[2])

(***************************************************************************)
(* C19: a step changes no session other than the one its request is for,  *)
(* and every session that appears starts in evaluation with the judges at *)
(* conviction 40, 50 and 35, no offers, acceptedOffer null and all        *)
(* counters 0, whatever the sessions before it have been through.         *)
(***************************************************************************)
\* the session ids a step works on: those of the requests in flight and of
\* the requests it takes
Acting ==
    {req[r].sid : r \in {x \in Reqs : req[x].pc # "idle"}}
        \cup {req'[r].asked.sid : r \in {x \in Reqs : Takes(x)}}

IsFresh(s) ==
    /\ s.currentStage = "evaluation"
    /\ s.judges["judge1"].convictionLevel = 40
    /\ s.judges["judge2"].convictionLevel = 50
    /\ s.judges["judge3"].convictionLevel = 35
    /\ \A j \in JudgeIds :
          /\ s.judges[j].currentOffer = NoOffer
          /\ s.judges[j].questionsAsked = 0
          /\ s.judgeOffers[j] = NoOffer
    /\ s.acceptedOffer = NoJudge
    /\ s.stageProgress = 0
    /\ s.playerResponseCount = 0
    /\ s.negotiationRound = 0
    /\ playerMessages(s) = 0

C19_SessionsIsolated ==
    [][/\ \A sid \in DOMAIN sessions :
             /\ sid \in DOMAIN sessions'
             /\ sid \notin Acting => sessions'[sid] = sessions[sid]
       /\ \A sid \in DOMAIN sessions' \ DOMAIN sessions : IsFresh(sessions'[sid])]_vars

\* C19 witness: a fresh session beside one that has been through evaluation
\* and whose judge2 holds an offer
C19_Witness ==
    \E a \in DOMAIN sessions, b \in DOMAIN sessions :
        /\ a # b
        /\ IsFresh(sessions[b])
        /\ sessions[a].currentStage = "initial_offers"
        /\ sessions[a].judges["judge2"].currentOffer # NoOffer
        /\ sessions[a].judges["judge1"].questionsAsked > 0

(***************************************************************************)
(* C20: a transcription call that fails ends its request with an error    *)
(* response and no transcript stands in for the missing one: POST         *)
(* /audio-reply answers 500 and leaves every session as it was, and the   *)
(* voice-analysis handler answers 500, saves nothing to its caches and    *)
(* makes no grammar call.                                                 *)
(***************************************************************************)
C20_TranscriptionFailureIsFatal ==
    /\ \A r \in Reqs :
          req[r].pc = "transcribe" =>
             LET resumed == audioReplyResume(r, CallError)
             IN  /\ resumed.req.pc = "idle"
                 /\ resumed.resp.status = 500
                 /\ resumed.resp.dialogue = <<>>
                 /\ resumed.sessions = sessions
    /\ voice.pc = "transcribing" =>
          LET v == voiceTranscribed(voice, "failure")
          IN  /\ v.pc = "idle"
              /\ v.status = 500
              /\ v.grammar = "none"
              /\ v.cache = voice.cache
              /\ v.grammarCache = voice.grammarCache
              /\ v.grammarCalls = voice.grammarCalls

\* C20 witness: an audio reply with a file for an existing session has been
\* answered 500 with the session still at its greeting, and the voice-analysis
\* handler has answered 500 for a file whose transcription is not cached,
\* no grammar call having been made
C20_Witness ==
    \E r \in Reqs, sid \in DOMAIN sessions :
        /\ req[r].pc = "idle"
        /\ req[r].asked = Asked("audio", sid, TRUE)
        /\ resp[r].status = 500
        /\ Len(sessions[sid].conversationHistory) = 1
        /\ voice.pc = "idle"
        /\ voice.status = 500
        /\ voice.key \in CacheKeys
        /\ voice.key \notin DOMAIN voice.cache
        /\ voice.grammarCalls = 0

(***************************************************************************)
(* C21: with two reply requests in flight on one session, a session that  *)
(* has reached closure can leave it for an earlier stage, or have its     *)
(* offers or acceptedOffer changed, and the step that does so is the      *)
(* resumption of a request that was suspended at its classification call *)
(* or at the extraction call of a reply; no step of another kind touches  *)
(* a session in closure this way.                                         *)
(***************************************************************************)
\* what closure is to keep of a session
Settled(s) ==
    [currentStage |-> s.currentStage, judgeOffers |-> s.judgeOffers,
     acceptedOffer |-> s.acceptedOffer,
     currentOffers |-> [j \in JudgeIds |-> s.judges[j].currentOffer]]

C21_ClosureBrokenByResumedRequest ==
    [][\A sid \in DOMAIN sessions :
          (sessions[sid].currentStage = "closure"
             /\ Settled(sessions'[sid]) # Settled(sessions[sid])) =>
                \E r \in Reqs :
                    /\ req[r].sid = sid
                    /\ req[r].pc \in {"classify", "extract"}
                    /\ req'[r].pc # req[r].pc]_vars

\* C21 witness: no request is in flight and the session is back in
\* negotiation with an accepted offer, which no number of turns processed
\* one at a time leaves
C21_Witness ==
    \E sid \in DOMAIN sessions :
        /\ Quiet(sid)
        /\ sessions[sid].acceptedOffer # NoJudge
        /\ sessions[sid].currentStage = "negotiation"
        /\ \A n \in 0..ConcurrentMaxTurns :
              Outcome(sessions[sid]) \notin {Outcome(s) : s \in SerialSessions(n)}

(***************************************************************************)
(* C22: a turn scores only the judges that are not eliminated: a judge    *)
(* whose conviction is below 20 when the turn starts gets no scoring call *)
(* and the scoring of that turn leaves its conviction as it was.          *)
(***************************************************************************)
IsOut(s, j) == Conviction(s, j) < ReplyThreshold

C22_EliminatedNotScored ==
    [][\A sid \in DOMAIN sessions : \A j \in JudgeIds :
          IsOut(sessions[sid], j) =>
             /\ \A r \in Reqs :
                   (Takes(r) /\ req'[r].pc = "scoring" /\ req'[r].sid = sid) =>
                       j \notin req'[r].pending
             /\ Suspended(sid, "scoring") =>
                   Conviction(sessions'[sid], j) = Conviction(sessions[sid], j)]_vars

(***************************************************************************)
(* C23: within a turn the stage machine runs only when the last scoring   *)
(* call has answered, on the convictions all of them have left, and those *)
(* convictions do not depend on the order in which the calls answer: a    *)
(* call that answers changes the conviction of its own judge only, and    *)
(* what a call still awaited will make of its judge's conviction is the   *)
(* same before and after another call has answered.                       *)
(***************************************************************************)
\* what the stage machine of processUserInput writes
StageFields(s) ==
    [currentStage |-> s.currentStage, stageProgress |-> s.stageProgress,
     playerResponseCount |-> s.playerResponseCount,
     negotiationRound |-> s.negotiationRound, judgeOffers |-> s.judgeOffers,
     acceptedOffer |-> s.acceptedOffer,
     currentOffers |-> [j \in JudgeIds |-> s.judges[j].currentOffer]]

C23_ScoringJoined ==
    [][\A r \in Reqs :
          req[r].pc = "scoring" =>
             LET sid == req[r].sid
                 s == sessions[sid]
                 after == sessions'[sid]
                 waiting == IF req'[r].pc = "scoring" THEN req'[r].pending ELSE {}
                 answering == req[r].pending \ waiting
             IN  /\ \A k \in JudgeIds \ answering : Conviction(after, k) = Conviction(s, k)
                 /\ \A b \in waiting, ob \in ScoreOutcomes :
                       LET later == analyzeMessage(after, b, ob)
                           sooner == analyzeMessage(s, b, ob)
                       IN  /\ Conviction(later, b) = Conviction(sooner, b)
                           /\ \A k \in JudgeIds \ {b} :
                                 Conviction(later, k) = Conviction(after, k)
                 /\ Cardinality(req[r].pending) > 1 =>
                       /\ req'[r].pc = "scoring"
                       /\ StageFields(after) = StageFields(s)
                 /\ (req'[r].pc # "scoring" /\ s.currentStage = "evaluation"
                        /\ after.currentStage = "initial_offers") =>
                       \A j \in JudgeIds :
                          after.judges[j].currentOffer =
                              IF Conviction(after, j) >= InterestThreshold
                              THEN initialOffer(Conviction(after, j))
                              ELSE NoOffer]_vars

\* C23 witness: the third turn's scoring calls all changed a conviction, and
\* the stage machine gave every judge then at 50 or above its offer
C23_Witness ==
    \E sid \in DOMAIN sessions :
        LET s == sessions[sid] IN
        /\ Suspended(sid, "generate")
        /\ playerMessages(s) = 3
        /\ validScores = 3
        /\ s.currentStage = "initial_offers"
        /\ Conviction(s, "judge1") = 55
        /\ Conviction(s, "judge2") = 35
        /\ Conviction(s, "judge3") = 52
        /\ s.judgeOffers["judge1"] = initialOffer(55)
        /\ s.judgeOffers["judge2"] = NoOffer
        /\ s.judgeOffers["judge3"] = initialOffer(52)

(***************************************************************************)
(* C24: when the generation call for a selected judge fails, the turn     *)
(* goes on: the judge's reply is the fallback string, it is appended to   *)
(* the history and to the replies of the response, and the judge's        *)
(* conviction, offer and questionsAsked stay as they were.                *)
(***************************************************************************)
C24_FailedGenerationFallsBack ==
    [][\A r \in Reqs :
          (req[r].pc = "generate" /\ GenerateDone(r, CallError, RepliesMaxOdd)) =>
             LET sid == req[r].sid
                 j == req[r].judges[req[r].idx]
                 given == IF req'[r].pc = "idle" THEN resp'[r].replies ELSE req'[r].replies
             IN  /\ req'[r].pc \in {"generate", "idle"}
                 /\ req'[r].pc = "idle" <=> req[r].idx = Len(req[r].judges)
                 /\ req'[r].pc = "idle" => resp'[r].status = 200
                 /\ sessions'[sid].judges = sessions[sid].judges
                 /\ sessions'[sid].judgeOffers = sessions[sid].judgeOffers
                 /\ sessions'[sid].conversationHistory =
                       Append(sessions[sid].conversationHistory, JudgeEntry(j, FallbackReply))
                 /\ Len(given) = Len(req[r].replies) + 1
                 /\ given[Len(given)].text = FallbackReply
                 /\ given[Len(given)].judge.id = j]_vars

\* C24 witness: the first turn has ended with the fallback reply for judge1,
\* whose generation call failed (no question counted), and judge2's reply
C24_Witness ==
    \E r \in Reqs, sid \in DOMAIN sessions :
        /\ req[r].pc = "idle" /\ resp[r].status = 200
        /\ playerMessages(sessions[sid]) = 1
        /\ Len(resp[r].replies) = 2
        /\ resp[r].replies[1].text = FallbackReply
        /\ resp[r].replies[1].judge.id = "judge1"
        /\ resp[r].replies[2].text = PlainReply
        /\ sessions[sid].judges["judge1"].questionsAsked = 0
        /\ sessions[sid].judges["judge2"].questionsAsked = 1
        /\ sessions[sid].conversationHistory[3] = JudgeEntry("judge1", FallbackReply)

(***************************************************************************)
(* C25: with the transcription cache enabled and the analyze requests     *)
(* handled one at a time, the provider is called for a request only if    *)
(* no transcription is stored under the hash of its audio; otherwise the  *)
(* stored one is used.  A transcription the provider returns is stored    *)
(* under the hash in the step that receives it, before the response, and  *)
(* what is stored is never removed or replaced: a hash has a stored       *)
(* transcription exactly when an earlier request with the same audio had  *)
(* a successful transcription.                                            *)
(***************************************************************************)
C25_TranscriptionCached ==
    [][/\ \A k \in DOMAIN voice.cache :
             k \in DOMAIN voice'.cache /\ voice'.cache[k] = voice.cache[k]
       /\ voice'.cache # voice.cache =>
             /\ voice.pc = "transcribing"
             /\ DOMAIN voice'.cache = DOMAIN voice.cache \cup {voice.key}
       /\ (voice.pc = "idle" /\ voice'.requests # voice.requests) =>
             /\ voice'.pc = "transcribing" => voice'.key \notin DOMAIN voice.cache
             /\ voice'.key \in DOMAIN voice.cache =>
                   /\ voice'.pc # "transcribing"
                   /\ voice'.transcription = voice.cache[voice'.key]
       /\ (voice.pc = "transcribing" /\ voice'.pc # "transcribing") =>
             /\ voice'.key = voice.key
             /\ voice'.transcription # "none" =>
                   /\ voice.key \in DOMAIN voice'.cache
                   /\ voice'.cache[voice.key] = voice'.transcription
             /\ voice'.transcription = "none" =>
                   voice'.status = 500 /\ voice'.cache = voice.cache]_vars

\* C25 witness: two requests with the same audio have both reached the grammar
\* call, the provider's transcription of the first being the only one stored
C25_Witness ==
    /\ voice.pc = "idle"
    /\ voice.status = 200
    /\ voice.requests = 2
    /\ voice.grammarCalls = 2
    /\ DOMAIN voice.cache = {"k1"}
    /\ voice.key = "k1"
    /\ voice.transcription = voice.cache["k1"]

(***************************************************************************)
(* C26: with the turns processed one at a time, acceptedOffer is non-null *)
(* only while currentStage is closure, and once non-null it never         *)
(* changes.                                                               *)
(***************************************************************************)
C26_AcceptedOnlyInClosure ==
    [][/\ \A sid \in DOMAIN sessions' :
             sessions'[sid].acceptedOffer # NoJudge =>
                 sessions'[sid].currentStage = "closure"
       /\ \A sid \in DOMAIN sessions :
             sessions[sid].acceptedOffer # NoJudge =>
                 sessions'[sid].acceptedOffer = sessions[sid].acceptedOffer]_vars

\* C26 witness: an offer was accepted and the session has since processed a
\* turn in closure (the seventh message; the classification call is made in
\* the fourth to sixth turn only)
C26_Witness ==
    \E sid \in DOMAIN sessions :
        /\ Quiet(sid)
        /\ sessions[sid].acceptedOffer # NoJudge
        /\ sessions[sid].currentStage = "closure"
        /\ playerMessages(sessions[sid]) = 7

(***************************************************************************)
(* C27: whenever acceptedOffer is non-null it is the id of a judge with   *)
(* an entry in judgeOffers: the judge recorded as accepted has made an    *)
(* offer.                                                                 *)
(***************************************************************************)
C27_AcceptedJudgeHasOffer ==
    \A sid \in DOMAIN sessions :
        LET s == sessions[sid] IN
        s.acceptedOffer # NoJudge =>
            /\ s.acceptedOffer \in JudgeIds
            /\ s.judgeOffers[s.acceptedOffer] # NoOffer

(***************************************************************************)
(* C28: for every judge, the offer stored under its id in judgeOffers and *)
(* the judge's own currentOffer agree: both absent, or both the same      *)
(* offer.                                                                 *)
(***************************************************************************)
C28_OffersAgree ==
    \A sid \in DOMAIN sessions : \A j \in JudgeIds :
        sessions[sid].judgeOffers[j] = sessions[sid].judges[j].currentOffer

(***************************************************************************)
(* C29: with the turns processed one at a time, a session is in closure   *)
(* once seven of its turns have been processed (3 in evaluation, 1 in     *)
(* initial_offers, 3 in negotiation), whatever the scoring,               *)
(* classification and generation calls answer.                            *)
(***************************************************************************)
C29_ClosureWithinSevenTurns ==
    \A sid \in DOMAIN sessions :
        (Quiet(sid) /\ playerMessages(sessions[sid])
                          >= maxEvaluationResponses + 1 + maxNegotiationRounds) =>
            sessions[sid].currentStage = "closure"

(***************************************************************************)
(* C30: once a reply of a judge containing "I'm out" has set its          *)
(* conviction to 0, the judge stays below 20 for the rest of the session  *)
(* and is not selected to reply in any later turn of initial_offers,      *)
(* negotiation or closure.                                                *)
(***************************************************************************)
\* entry i of the history is a reply of judge j that says it is out
IsOutReply(s, j, i) ==
    LET d == s.conversationHistory[i]
    IN  d.speaker = "judge" /\ d.judge = j /\ ContainsOutPhrase(d.text)

\* the position of the last player entry of the history, 0 when there is none
LastPlayerEntry(s) ==
    LET at == {i \in 1..Len(s.conversationHistory) : IsPlayerEntry(s.conversationHistory[i])}
    IN  IF at = {} THEN 0 ELSE CHOOSE i \in at : \A k \in at : k <= i

C30_OutJudgeStaysOut ==
    \A sid \in DOMAIN sessions : \A j \in JudgeIds :
        LET s == sessions[sid] IN
        /\ (\E i \in 1..Len(s.conversationHistory) : IsOutReply(s, j, i)) => IsOut(s, j)
        /\ (\E i \in 1..LastPlayerEntry(s) : IsOutReply(s, j, i)) =>
              \A r \in Reqs :
                 (req[r].sid = sid /\ req[r].pc \in {"generate", "extract"}
                    /\ s.currentStage # "evaluation") =>
                       \A k \in 1..Len(req[r].judges) : req[r].judges[k] # j

====
